---- MODULE Spec2Model ----
(***************************************************************************)
(* A model of e_shuffle.py: elitist_shuffle (a rank-biased permutation     *)
(* drawn by weighted sampling without replacement) and shuffle_simulations *)
(* (the loop that applies a shuffle function to the identity list and      *)
(* accumulates, per initial position, the frequency of each landing        *)
(* position).                                                              *)
(*                                                                         *)
(* Floats are modelled exactly, as reduced fractions <<num, den>>, den > 0: *)
(* rounding, overflow and underflow of the weights are outside the model.  *)
(* Python lists are sequences; a Python position p is index p + 1 here.    *)
(* A call that can end in several ways (the random draws of                *)
(* np.random.choice, the caller's shuffle function) is the set of its      *)
(* outcomes, and the action that makes the call takes any of them.         *)
(***************************************************************************)
EXTENDS Integers, Sequences, FiniteSets, TLC

\* ------------------------------------------------------------------ bounds

\* elitist_shuffle called on its own: at most this many items.
MaxItems == 3
\* inequality ranges over -MaxInequality .. MaxInequality.
MaxInequality == 2
\* shuffle_simulations: n_items ranges over 0 .. MaxSimItems.
MaxSimItems == 2
\* shuffle_simulations: n_simulations ranges over -1 .. MaxSimulations.
MaxSimulations == 2

\* Python's None, and a value that is not None: a variable that may hold None
\* holds NoneV or Some(v), so that None and the empty list stay distinct.
NoneV == <<>>
Some(v) == <<v>>

\* ------------------------------------------------------- exact arithmetic

RECURSIVE GCD(_, _)
GCD(a, b) == IF b = 0 THEN a ELSE GCD(b, a % b)

Abs(x) == IF x < 0 THEN -x ELSE x

\* The fraction n/d (d # 0), reduced, with a positive denominator.
Rat(n, d) ==
    LET g == GCD(Abs(n), Abs(d))
        s == IF d < 0 THEN -1 ELSE 1
    IN  <<(s * n) \div g, (s * d) \div g>>

Zero == <<0, 1>>
One == <<1, 1>>

RAdd(a, b) ==
    LET g == GCD(a[2], b[2])
    IN  Rat(a[1] * (b[2] \div g) + b[1] * (a[2] \div g), (a[2] \div g) * b[2])

RMul(a, b) ==
    LET x == Rat(a[1], b[2])
        y == Rat(b[1], a[2])
    IN  <<x[1] * y[1], x[2] * y[2]>>

RDiv(a, b) == RMul(a, Rat(b[2], b[1]))

\* a/b < c/d for b, d > 0, by integer parts and then the reciprocals of the
\* fractional parts: no product is formed.
RECURSIVE FracLess(_, _, _, _)
FracLess(a, b, c, d) ==
    IF a \div b # c \div d THEN a \div b < c \div d
    ELSE IF c % d = 0 THEN FALSE
    ELSE IF a % b = 0 THEN TRUE
    ELSE FracLess(d, c % d, b, a % b)

RLess(a, b) == FracLess(a[1], a[2], b[1], b[2])

RAbs(a) == <<Abs(a[1]), a[2]>>

RECURSIVE RSum(_)
RSum(s) == IF s = <<>> THEN Zero ELSE RAdd(s[1], RSum(Tail(s)))

RECURSIVE RPow(_, _)
RPow(b, k) == IF k = 0 THEN One ELSE RMul(b, RPow(b, k - 1))

\* ----------------------------------------------------------- elitist_shuffle

\* The ranks reversed (np.linspace(1, 0, ...)[::-1]): 1/n, ..., 1.
LinspaceReversed(n) == [i \in 1..n |-> Rat(i, n)]

\* np.linspace(1, 0, num=n, endpoint=False): 1, 1 - 1/n, ..., 1/n.
Linspace(n) == [i \in 1..n |-> Rat(n - (i - 1), n)]

\* np.power(base, inequality), elementwise; the bases are positive.
Power(base, inequality) ==
    [i \in 1..Len(base) |->
        IF inequality >= 0
        THEN RPow(base[i], inequality)
        ELSE RDiv(One, RPow(base[i], -inequality))]

\* np.linalg.norm(w, ord=np.inf), the norm a wrong ord would take.
RECURSIVE RMax(_)
RMax(s) ==
    IF s = <<>> THEN Zero
    ELSE LET m == RMax(Tail(s)) IN IF RLess(m, s[1]) THEN s[1] ELSE m

NormInf(w) == RMax([i \in 1..Len(w) |-> RAbs(w[i])])

\* np.linalg.norm(w, ord=1)
Norm1(w) == RSum([i \in 1..Len(w) |-> RAbs(w[i])])

\* w / norm, elementwise (of an empty w: empty, whatever the norm).
Divide(w, norm) == [i \in 1..Len(w) |-> RDiv(w[i], norm)]

\* The local variable weights after line 85.
Weights(n, inequality) ==
    LET w == Power(Linspace(n), inequality)
    IN  Divide(w, Norm1(w))

\* Sampling with replacement (replace=True): a drawn position stays in the pool.
RECURSIVE DrawsWithReplacement(_, _, _)
DrawsWithReplacement(pool, p, size) ==
    IF size = 0 THEN {<<>>}
    ELSE UNION {{<<i>> \o r : r \in DrawsWithReplacement(pool, p, size - 1)} :
                    i \in {j \in pool : RLess(Zero, p[j])}}

\* The orders in which `size` distinct positions of positive probability can
\* be drawn from `pool`, one at a time.
RECURSIVE Draws(_, _, _)
Draws(pool, p, size) ==
    IF size = 0 THEN {<<>>}
    ELSE UNION {{<<i>> \o r : r \in Draws(pool \ {i}, p, size - 1)} :
                    i \in {j \in pool : RLess(Zero, p[j])}}

\* The sum of p as np.random.choice takes it. Of an empty p the summation
\* starts from the element before it looks at the length, so the sum is
\* whatever the memory holds: a value that is 1 (One) or one that is not (Zero).
PSums(p) == IF Len(p) = 0 THEN {Zero, One} ELSE {RSum(p)}

\* np.random.choice(a, size=size, replace=False, p=p) of a list a: the set of
\* its outcomes, each [error, out]. p is checked (size, sum, sign, count of
\* positive entries) before anything is drawn.
Choice(a, size, p) ==
    UNION {
        IF \/ Len(p) # Len(a)
           \/ sum # One
           \/ \E i \in 1..Len(p) : RLess(p[i], Zero)
           \/ Len(a) < size
           \/ Cardinality({i \in 1..Len(p) : RLess(Zero, p[i])}) < size
        THEN {[error |-> "ValueError", out |-> <<>>]}
        ELSE {[error |-> "none", out |-> [k \in 1..size |-> a[d[k]]]] :
                  d \in Draws(1..Len(a), p, size)}
        : sum \in PSums(p)}

\* The sum of f over the set S.
RECURSIVE RSumOver(_, _)
RSumOver(f, S) ==
    IF S = {} THEN Zero
    ELSE LET x == CHOOSE x \in S : TRUE IN RAdd(f[x], RSumOver(f, S \ {x}))

\* Sampling without replacement draws each position of the pool with
\* probability proportional to its weight among the remaining ones.
\* DrawProb: the probability of drawing the positions d in this order.
RECURSIVE DrawProb(_, _, _)
DrawProb(p, pool, d) ==
    IF d = <<>> THEN One
    ELSE RMul(RDiv(p[d[1]], RSumOver(p, pool)),
              DrawProb(p, pool \ {d[1]}, Tail(d)))

\* FrontProb: the probability that position i is among the next k draws.
RECURSIVE FrontProb(_, _, _, _)
FrontProb(p, pool, i, k) ==
    IF k = 0 \/ i \notin pool THEN Zero
    ELSE LET total == RSumOver(p, pool)
         IN  RSumOver([a \in pool |->
                         RMul(RDiv(p[a], total),
                              IF a = i THEN One
                              ELSE FrontProb(p, pool \ {a}, i, k - 1))],
                      pool)

\* elitist_shuffle with the parameter check the code does not have.
ElitistShuffleChecked(items, inequality) ==
    IF inequality < 0
    THEN {[error |-> "InvalidParameter", weights |-> <<>>, out |-> <<>>]}
    ELSE LET weights == Weights(Len(items), inequality)
         IN  {[error |-> c.error, weights |-> weights, out |-> c.out] :
                 c \in Choice(items, Len(items), weights)}

\* elitist_shuffle(items, inequality): the set of its outcomes, each
\* [error, weights, out].
ElitistShuffle(items, inequality) ==
    LET weights == Weights(Len(items), inequality)
    IN  {[error |-> c.error, weights |-> weights, out |-> c.out] :
            c \in Choice(items, Len(items), weights)}

\* ------------------------------------------------------- shuffle_simulations

\* list(range(n))
ListRange(n) == [i \in 1..n |-> i - 1]

\* The list built once, before the loop, and handed to every trial.
BuildItemsOnce(previous, n) == IF previous = <<>> THEN ListRange(n) ELSE previous

\* Line 28 is inside the loop: every iteration builds a new list, whatever the
\* list of the iteration before (previous) has become.
BuildItems(previous, n) == ListRange(n)

Elements(s) == {s[i] : i \in 1..Len(s)}

\* s.index(x), for x in s: the first position holding x, counted from 0.
Index(s, x) == (CHOOSE i \in 1..Len(s) : s[i] = x /\ \A j \in 1..(i - 1) : s[j] # x) - 1

\* What a shuffle function other than elitist_shuffle may leave behind: any list
\* of at most n + 1 elements drawn from 0..n (permutations of 0..n-1, and lists
\* that are too short, too long, repeat an index or hold the foreign element n).
Arrangements(n) == UNION {[1..k -> 0..n] : k \in 0..(n + 1)}

\* shuffle_func(items): the set of its outcomes, each [error, ret, items,
\* arrangement, weights]: what it raised, what it returned, what the list it was
\* given holds afterwards, the arrangement it produced, and (elitist_shuffle)
\* its weights.
ShuffleFunc(func, items, inequality) ==
    CASE func = "elitist" ->
            {[error |-> o.error,
              ret |-> IF o.error = "none" THEN Some(o.out) ELSE NoneV,
              items |-> items, arrangement |-> o.out, weights |-> o.weights] :
                o \in ElitistShuffle(items, inequality)}
      [] func = "returning" ->
            {[error |-> "none", ret |-> Some(a), items |-> items,
              arrangement |-> a, weights |-> <<>>] : a \in Arrangements(Len(items))}
      [] func = "inplace" ->
            {[error |-> "none", ret |-> NoneV, items |-> a,
              arrangement |-> a, weights |-> <<>>] : a \in Arrangements(Len(items))}

\* The return value ignored: the given list is taken, whatever was returned.
OrItemsIgnoringReturn(ret, items) == items

\* ret or items (line 29): None and the empty list are both false.
OrItems(ret, items) == IF ret = NoneV \/ ret[1] = <<>> THEN items ELSE ret[1]

\* landing_counts[item]: a defaultdict creates the missing Counter on access.
Touch(lc, item) ==
    IF item \in DOMAIN lc THEN lc
    ELSE [k \in DOMAIN lc \cup {item} |-> IF k = item THEN <<>> ELSE lc[k]]

\* counter[pos] = f: the frequency assigned, not accumulated.
AddOverwriting(counter, pos, f) ==
    [k \in DOMAIN counter \cup {pos} |-> IF k = pos THEN f ELSE counter[k]]

\* counter[pos] += f: a Counter reads a missing key as 0.
Add(counter, pos, f) ==
    [k \in DOMAIN counter \cup {pos} |->
        IF k = pos
        THEN RAdd(IF pos \in DOMAIN counter THEN counter[pos] ELSE Zero, f)
        ELSE counter[k]]

\* Lines 30-31 from `item` on: [error, lc]. The target landing_counts[item] is
\* evaluated before s_items.index(item), which raises ValueError when item is
\* not in s_items.
RECURSIVE CountFrom(_, _, _, _, _)
CountFrom(lc, s, item, n, f) ==
    IF item >= n THEN [error |-> "none", lc |-> lc]
    ELSE LET t == Touch(lc, item)
         IN  IF item \notin Elements(s)
             THEN [error |-> "ValueError", lc |-> t]
             ELSE CountFrom([t EXCEPT ![item] = Add(t[item], Index(s, item), f)],
                            s, item + 1, n, f)

\* Lines 30-31 behind the bijection check the code does not have.
CountLandingsChecked(lc, s, n, f) ==
    IF Len(s) # n \/ Elements(s) # 0..(n - 1)
    THEN [error |-> "ShapeMismatch", lc |-> lc]
    ELSE CountFrom(lc, s, 0, n, f)

CountLandings(lc, s, n, f) == CountFrom(lc, s, 0, n, f)

\* 1 / n behind the parameter check the code does not have.
FreqFactorChecked(n) ==
    IF n <= 0 THEN [error |-> "InvalidParameter", value |-> Zero]
    ELSE [error |-> "none", value |-> Rat(1, n)]

\* 1 / n_simulations (line 26): [error, value]. Python's / raises
\* ZeroDivisionError on a zero divisor.
FreqFactor(n) ==
    IF n = 0 THEN [error |-> "ZeroDivisionError", value |-> Zero]
    ELSE [error |-> "none", value |-> Rat(1, n)]

\* ----------------------------------------------------------------- state

VARIABLES
    call,           \* which function was called
    pc,             \* start, for, shuffle, count, returned, raised
    shuffle_func,   \* shuffle_simulations: elitist, returning, inplace
    inequality,     \* elitist_shuffle's inequality
    n_items, n_simulations,
    freq_factor, landing_counts,
    trial,          \* iterations of the loop of line 27 completed
    items,          \* shuffle_simulations' items, elitist_shuffle's argument
    arrangement,    \* what the last shuffle_func call produced
    ret,            \* what the last shuffle_func call returned
    s_items,
    weights,        \* elitist_shuffle's weights
    error,          \* the exception raised, or none
    result          \* what the call returned: NoneV until it does

vars == <<call, pc, shuffle_func, inequality, n_items, n_simulations,
          freq_factor, landing_counts, trial, items, arrangement, ret,
          s_items, weights, error, result>>

\* Lists of at most MaxItems distinct items, drawn from 0..MaxItems-1.
DistinctLists ==
    {s \in UNION {[1..k -> 0..(MaxItems - 1)] : k \in 0..MaxItems} :
        \A i, j \in 1..Len(s) : s[i] = s[j] => i = j}

Inequalities == (-MaxInequality)..MaxInequality

Init ==
    /\ call \in {"elitist_shuffle", "shuffle_simulations"}
    /\ pc = "start"
    /\ inequality \in Inequalities
    /\ IF call = "elitist_shuffle"
       THEN /\ items \in DistinctLists
            /\ shuffle_func = "none"
            /\ n_items = 0
            /\ n_simulations = 0
       ELSE /\ items = <<>>
            /\ shuffle_func \in {"elitist", "returning", "inplace"}
            /\ shuffle_func # "elitist" => inequality = 0
            /\ n_items \in 0..MaxSimItems
            /\ n_simulations \in (-1)..MaxSimulations
    /\ freq_factor = Zero
    /\ landing_counts = <<>>
    /\ trial = 0
    /\ arrangement = <<>>
    /\ ret = NoneV
    /\ s_items = <<>>
    /\ weights = <<>>
    /\ error = "none"
    /\ result = NoneV

\* elitist_shuffle(items, inequality), called on its own (lines 81-88).
ElitistCall ==
    /\ call = "elitist_shuffle"
    /\ pc = "start"
    /\ \E o \in ElitistShuffle(items, inequality) :
        /\ weights' = o.weights
        /\ error' = o.error
        /\ result' = IF o.error = "none" THEN Some(o.out) ELSE NoneV
        /\ pc' = IF o.error = "none" THEN "returned" ELSE "raised"
    /\ UNCHANGED <<call, shuffle_func, inequality, n_items, n_simulations,
                   freq_factor, landing_counts, trial, items, arrangement, ret,
                   s_items>>

\* Lines 25-26: the empty defaultdict, and 1 / n_simulations, which raises
\* ZeroDivisionError when n_simulations is 0.
SimStart ==
    /\ call = "shuffle_simulations"
    /\ pc = "start"
    /\ landing_counts' = <<>>
    /\ LET f == FreqFactor(n_simulations)
       IN  /\ error' = f.error
           /\ IF f.error = "none"
              THEN /\ freq_factor' = f.value
                   /\ pc' = "for"
              ELSE /\ pc' = "raised"
                   /\ UNCHANGED freq_factor
    /\ UNCHANGED <<call, shuffle_func, inequality, n_items, n_simulations,
                   trial, items, arrangement, ret, s_items, weights, result>>

\* Lines 27-28: one more iteration of range(n_simulations), and its items.
NextTrial ==
    /\ pc = "for"
    /\ trial < n_simulations
    /\ items' = BuildItems(items, n_items)
    /\ pc' = "shuffle"
    /\ UNCHANGED <<call, shuffle_func, inequality, n_items, n_simulations,
                   freq_factor, landing_counts, trial, arrangement, ret,
                   s_items, weights, error, result>>

\* Line 29: s_items = shuffle_func(items) or items.
Shuffle ==
    /\ pc = "shuffle"
    /\ \E o \in ShuffleFunc(shuffle_func, items, inequality) :
        /\ items' = o.items
        /\ arrangement' = o.arrangement
        /\ ret' = o.ret
        /\ weights' = o.weights
        /\ error' = o.error
        /\ IF o.error = "none"
           THEN /\ s_items' = OrItems(o.ret, o.items)
                /\ pc' = "count"
           ELSE /\ pc' = "raised"
                /\ UNCHANGED s_items
    /\ UNCHANGED <<call, shuffle_func, inequality, n_items, n_simulations,
                   freq_factor, landing_counts, trial, result>>

\* Lines 30-31: the landing position of every item, or the ValueError of
\* s_items.index at the first item that s_items does not hold.
Count ==
    /\ pc = "count"
    /\ LET c == CountLandings(landing_counts, s_items, n_items, freq_factor)
       IN  /\ landing_counts' = c.lc
           /\ error' = c.error
           /\ IF c.error = "none"
              THEN /\ trial' = trial + 1
                   /\ pc' = "for"
              ELSE /\ pc' = "raised"
                   /\ UNCHANGED trial
    /\ UNCHANGED <<call, shuffle_func, inequality, n_items, n_simulations,
                   freq_factor, items, arrangement, ret, s_items, weights,
                   result>>

\* Lines 27 and 32: range(n_simulations) is exhausted (at once when
\* n_simulations is negative), and landing_counts is returned.
Return ==
    /\ pc = "for"
    /\ trial >= n_simulations
    /\ result' = Some(landing_counts)
    /\ pc' = "returned"
    /\ UNCHANGED <<call, shuffle_func, inequality, n_items, n_simulations,
                   freq_factor, landing_counts, trial, items, arrangement, ret,
                   s_items, weights, error>>

Next == ElitistCall \/ SimStart \/ NextTrial \/ Shuffle \/ Count \/ Return

Spec == Init /\ [][Next]_vars

\* ------------------------------------------------------------- properties

\* out holds every element of the list of distinct items `of` exactly once,
\* and nothing else.
IsPermutationOf(out, of) ==
    /\ Len(out) = Len(of)
    /\ \A i \in 1..Len(of) : Cardinality({j \in 1..Len(out) : out[j] = of[i]}) = 1

\* s is a bijection over 0..n-1.
IsBijection(s, n) == IsPermutationOf(s, ListRange(n))

RECURSIVE Factorial(_)
Factorial(n) == IF n = 0 THEN 1 ELSE n * Factorial(n - 1)

\* elitist_shuffle, called on its own, has run.
ElitistDone == call = "elitist_shuffle" /\ pc # "start"

\* Line 29 has run with elitist_shuffle as the shuffle function.
ElitistShuffled ==
    /\ call = "shuffle_simulations"
    /\ shuffle_func = "elitist"
    /\ pc = "count" \/ (pc = "raised" /\ error # "ZeroDivisionError") \/ trial >= 1

\* Lines 30-31 have run on the current s_items.
Counted ==
    /\ call = "shuffle_simulations"
    /\ \/ pc \in {"for", "shuffle", "returned"} /\ trial >= 1
       \/ pc = "raised" /\ error # "ZeroDivisionError" /\ shuffle_func # "elitist"

\* C1: for a non-empty list of distinct items and inequality >= 0,
\* elitist_shuffle returns (it does not raise), and what it returns is a
\* permutation of its input: the same length, every item exactly once. The
\* same holds of every call shuffle_simulations makes of it.
C1_OutputIsPermutation ==
    /\ (ElitistDone /\ Len(items) >= 1 /\ inequality >= 0) =>
            /\ pc = "returned"
            /\ IsPermutationOf(result[1], items)
    /\ (ElitistShuffled /\ n_items >= 1 /\ inequality >= 0) =>
            /\ pc # "raised"
            /\ IsBijection(arrangement, n_items)

C1_Witness ==
    /\ ElitistDone
    /\ inequality = 2
    /\ Len(items) = 3
    /\ pc = "returned"
    /\ result[1] # items

\* C2 as claimed: whenever the arrangement the aggregator counted is not a
\* bijection over 0..n_items-1, the run has failed with ShapeMismatch.
C2_ShapeMismatchRaised ==
    (Counted /\ ~IsBijection(s_items, n_items)) =>
        (pc = "raised" /\ error = "ShapeMismatch")

\* C2 as the code has it: there is no bijection check. When s_items (the
\* returned list if it is not empty, else the given list) lacks an index of
\* 0..n_items-1, the trial raises the ValueError of s_items.index and nothing
\* is returned; when it holds every index, extra or repeated elements besides,
\* the trial raises nothing and is counted.
C2_MissingIndexRaisesValueError ==
    Counted =>
        IF (0..(n_items - 1)) \subseteq Elements(s_items)
        THEN pc # "raised" /\ error = "none"
        ELSE pc = "raised" /\ error = "ValueError" /\ result = NoneV

C2_Witness ==
    /\ Counted
    /\ pc = "returned"
    /\ n_items = 2
    /\ Len(s_items) = 3
    /\ ~IsBijection(s_items, n_items)
    /\ 2 \in DOMAIN landing_counts[1]

\* C3 as claimed: elitist_shuffle with inequality < 0 fails with
\* InvalidParameter before any weight is computed, and returns nothing.
C3_NegativeInequalityRejected ==
    (ElitistDone /\ inequality < 0) =>
        (pc = "raised" /\ error = "InvalidParameter" /\ weights = <<>>)

\* C3 as the code has it: inequality is not checked. For a non-empty list and
\* inequality < 0 the weights are computed as for any other exponent: they
\* are positive, sum to 1, and grow with the index (the bias is inverted);
\* the call raises nothing and returns a permutation of its input.
C3_NegativeInequalityAccepted ==
    /\ (ElitistDone /\ inequality < 0 /\ Len(items) >= 1) =>
            /\ pc = "returned"
            /\ error = "none"
            /\ Len(weights) = Len(items)
            /\ \A i \in 1..Len(weights) : RLess(Zero, weights[i])
            /\ \A i \in 1..(Len(weights) - 1) : RLess(weights[i], weights[i + 1])
            /\ RSum(weights) = One
            /\ IsPermutationOf(result[1], items)
    /\ (ElitistShuffled /\ inequality < 0 /\ n_items >= 1) => pc # "raised"

C3_Witness ==
    /\ ElitistDone
    /\ inequality = -1
    /\ Len(items) = 2
    /\ pc = "returned"
    /\ weights = <<Rat(1, 3), Rat(2, 3)>>
    /\ result[1] # items

\* C4 as claimed: shuffle_simulations with n_simulations <= 0 fails with
\* InvalidParameter.
C4_NonPositiveCountRejected ==
    (call = "shuffle_simulations" /\ pc # "start" /\ n_simulations <= 0) =>
        (pc = "raised" /\ error = "InvalidParameter")

\* C4 as the code has it: n_simulations is not checked. With n_simulations = 0
\* line 26 raises ZeroDivisionError, before any trial; with n_simulations < 0
\* nothing is raised, no trial runs, and the empty distribution is returned.
C4_ZeroDividesNegativeReturnsEmpty ==
    (call = "shuffle_simulations" /\ pc # "start" /\ n_simulations <= 0) =>
        IF n_simulations = 0
        THEN /\ pc = "raised"
             /\ error = "ZeroDivisionError"
             /\ result = NoneV
             /\ trial = 0 /\ items = <<>>
        ELSE /\ pc \in {"for", "returned"}
             /\ error = "none"
             /\ trial = 0 /\ items = <<>>
             /\ pc = "returned" => result = Some(<<>>)

C4_Witness ==
    /\ call = "shuffle_simulations"
    /\ n_simulations = -1
    /\ n_items = 2
    /\ pc = "returned"
    /\ result = Some(<<>>)

\* C5: with n_items >= 1 and n_simulations >= 1, after every completed trial
\* every initial position 0..n_items-1 is present and its entries sum to
\* trial / n_simulations; so in what shuffle_simulations returns, the entries
\* of every initial position sum to 1.
C5_EntriesSumToOne ==
    (call = "shuffle_simulations" /\ n_items >= 1 /\ n_simulations >= 1
        /\ pc \in {"for", "shuffle", "count", "returned"}) =>
        /\ trial >= 1 =>
            /\ DOMAIN landing_counts = 0..(n_items - 1)
            /\ \A item \in 0..(n_items - 1) :
                   RSumOver(landing_counts[item], DOMAIN landing_counts[item])
                       = Rat(trial, n_simulations)
        /\ pc = "returned" =>
            /\ trial = n_simulations
            /\ DOMAIN result[1] = 0..(n_items - 1)
            /\ \A item \in 0..(n_items - 1) :
                   RSumOver(result[1][item], DOMAIN result[1][item]) = One

C5_Witness ==
    /\ call = "shuffle_simulations"
    /\ pc = "returned"
    /\ n_items = 2
    /\ n_simulations = 2
    /\ IsBijection(s_items, n_items)
    /\ result[1][0] = (0 :> Rat(1, 2) @@ 1 :> Rat(1, 2))

\* C6: a shuffle function that returns the arrangement A as a new list and
\* one that rearranges the given list into A and returns None are counted
\* alike: for every permutation A of the identity list, s_items is A whichever
\* of the two produced it, and lines 30-31 add to landing_counts what they add
\* for A.
C6_ConventionsEquivalent ==
    [][(/\ pc = "count"
        /\ pc' # "count"
        /\ shuffle_func \in {"returning", "inplace"}
        /\ IsBijection(arrangement, n_items)) =>
            /\ s_items = arrangement
            /\ error' = "none"
            /\ landing_counts' =
                   CountLandings(landing_counts, arrangement, n_items, freq_factor).lc
      ]_vars

C6_Witness ==
    /\ call = "shuffle_simulations"
    /\ shuffle_func = "inplace"
    /\ pc = "for"
    /\ trial = 1
    /\ ret = NoneV
    /\ n_items = 2
    /\ arrangement = <<1, 0>>
    /\ s_items = arrangement
    /\ landing_counts[0] = (1 :> freq_factor)

\* C7: for n >= 2 items and inequality > 0, for all positions i < j and every
\* cutoff k in 1..n, the item at position i is at least as likely to end among
\* the first k as the item at position j, under the weights elitist_shuffle
\* computed.
C7_MonotonicBias ==
    (ElitistDone /\ Len(items) >= 2 /\ inequality > 0) =>
        /\ pc = "returned"
        /\ \A i, j \in 1..Len(items) : \A k \in 1..Len(items) :
               i < j =>
                   ~RLess(FrontProb(weights, 1..Len(items), i, k),
                          FrontProb(weights, 1..Len(items), j, k))

C7_Witness ==
    /\ ElitistDone
    /\ pc = "returned"
    /\ Len(items) = 3
    /\ inequality = 1
    /\ weights = <<Rat(1, 2), Rat(1, 3), Rat(1, 6)>>
    /\ RLess(FrontProb(weights, 1..3, 2, 2), FrontProb(weights, 1..3, 1, 2))

\* C8: with inequality = 0 and n >= 1 items every weight is 1/n, every
\* permutation of the input is a possible output, and every order of drawing
\* has the same probability 1/n!.
C8_UniformAtZero ==
    (ElitistDone /\ Len(items) >= 1 /\ inequality = 0) =>
        LET n == Len(items)
        IN  /\ pc = "returned"
            /\ weights = [i \in 1..n |-> Rat(1, n)]
            /\ {o.out : o \in ElitistShuffle(items, inequality)}
                   = {s \in [1..n -> Elements(items)] : IsPermutationOf(s, items)}
            /\ \A d \in Draws(1..n, weights, n) :
                   DrawProb(weights, 1..n, d) = Rat(1, Factorial(n))

C8_Witness ==
    /\ ElitistDone
    /\ pc = "returned"
    /\ inequality = 0
    /\ Len(items) = 3
    /\ weights = <<Rat(1, 3), Rat(1, 3), Rat(1, 3)>>
    /\ result[1] = <<items[3], items[1], items[2]>>

\* C9 as claimed: shuffle_simulations with n_items = 0 and n_simulations > 0,
\* with elitist_shuffle as the shuffle function, raises nothing and returns
\* the empty distribution.
C9_EmptyRunReturnsEmpty ==
    (call = "shuffle_simulations" /\ shuffle_func = "elitist"
        /\ n_items = 0 /\ n_simulations > 0 /\ inequality >= 0) =>
        /\ pc # "raised"
        /\ error = "none"
        /\ pc = "returned" => result = Some(<<>>)

\* C10: every trial hands shuffle_func the list [0, ..., n_items-1], whatever
\* the trials before did to theirs; and a trial leaves the arguments and
\* freq_factor alone, and changes landing_counts only in lines 30-31, and
\* there only the entry of each item's landing position.
C10_FreshItemsEveryTrial ==
    [][/\ pc' = "shuffle" => items' = ListRange(n_items)
       /\ pc \in {"for", "shuffle", "count"} =>
            /\ n_items' = n_items
            /\ n_simulations' = n_simulations
            /\ shuffle_func' = shuffle_func
            /\ inequality' = inequality
            /\ freq_factor' = freq_factor
       /\ pc \in {"for", "shuffle"} => landing_counts' = landing_counts
       /\ pc = "count" =>
            \A item \in DOMAIN landing_counts :
                /\ item \in DOMAIN landing_counts'
                /\ \A pos \in DOMAIN landing_counts[item] :
                       /\ pos \in DOMAIN landing_counts'[item]
                       /\ (item \notin Elements(s_items) \/ pos # Index(s_items, item))
                              => landing_counts'[item][pos] = landing_counts[item][pos]
      ]_vars

C10_Witness ==
    /\ call = "shuffle_simulations"
    /\ shuffle_func = "inplace"
    /\ pc = "shuffle"
    /\ trial = 1
    /\ n_items = 2
    /\ items = <<0, 1>>
    /\ s_items = <<1, 1, 0>>

====
